---- MODULE Spec2Model ----
(***************************************************************************)
(* PF 2026 leaderboard API server (anti-cheat variant).                    *)
(*                                                                         *)
(* State: the in-memory session registry (gameSessions), the persisted     *)
(* scores document (scores.json) and the wall clock.  A handler is a       *)
(* function of the state and the request: the response it sends is a state *)
(* function (SubmitResponse, InteractResponse, ListResponse, ...), and the *)
(* action assigns the state it leaves.                                     *)
(* Every Express handler is synchronous (readFileSync / writeFileSync, no  *)
(* await), so on Node's single-threaded event loop a handler runs to       *)
(* completion before another request, or the sweep timer, is served: each  *)
(* handler is one atomic action.  The rate limiters, CORS and body parsing *)
(* are transport plumbing: the actions model the requests that reach the   *)
(* handlers, with bodies already JSON-decoded.                             *)
(***************************************************************************)
EXTENDS Integers, Sequences, FiniteSets, TLC

VARIABLES
    now,          \* Date.now(), ms since the process started
    lastSweep,    \* instant the setInterval callback last ran (process start at first)
    gameSessions, \* Map token -> session
    issued,       \* tokens crypto.randomBytes has produced so far
    file,         \* contents of SCORES_FILE
    nextId,       \* ids generated so far + 1
    used          \* history: per token, the saved submissions that carried it since it was issued

vars == <<now, lastSweep, gameSessions, issued, file, nextId, used>>

----------------------------------------------------------------------------
(* Program constants *)

MaxScores == 500            \* scores.slice(0, 500)
ListLimit == 50             \* scores.slice(0, 50)
MinTime == 3000             \* sanitizedTime < 3000
MaxTime == 600000           \* sanitizedTime > 600000
Tolerance == 2000           \* sessionDuration + 2000
MinInteractions == 3        \* session.interactions >= 3
MaxAge == 1800000           \* 30 * 60 * 1000
SweepInterval == 600000     \* 10 * 60 * 1000
NameMax == 50               \* slice(0, 50)
CinemaMax == 100            \* slice(0, 100)
EmailMax == 100             \* slice(0, 100)
SignaturePrefix == 16       \* signature.substring(0, 16)

(* Bounds of the model *)

MaxSubmits == 2             \* submissions stored per run
MaxInteract == 3            \* interactions recorded per session
SeedBase == 1000            \* ids of the entries stored before the run start above this

----------------------------------------------------------------------------
(* JavaScript values of a decoded JSON body.  A number is n + f/10 (f a    *)
(* single decimal digit, n >= 0 when f > 0); a string is a sequence of     *)
(* one-character strings.                                                  *)

JsVal(kind, int, frac, chars) == [k |-> kind, n |-> int, f |-> frac, s |-> chars]

Undefined == JsVal("undefined", 0, 0, <<>>)
Null == JsVal("null", 0, 0, <<>>)
True == JsVal("true", 0, 0, <<>>)
False == JsVal("false", 0, 0, <<>>)
NaN == JsVal("NaN", 0, 0, <<>>)
Num(int) == JsVal("number", int, 0, <<>>)
Frac(int, tenth) == JsVal("number", int, tenth, <<>>)
Str(chars) == JsVal("string", 0, 0, chars)

Min(a, b) == IF a <= b THEN a ELSE b

(* !v is false *)
Truthy(v) ==
    CASE v.k = "undefined" -> FALSE
      [] v.k = "null" -> FALSE
      [] v.k = "false" -> FALSE
      [] v.k = "NaN" -> FALSE
      [] v.k = "true" -> TRUE
      [] v.k = "number" -> v.n # 0 \/ v.f # 0
      [] v.k = "string" -> Len(v.s) > 0

DigitChars == <<"0", "1", "2", "3", "4", "5", "6", "7", "8", "9">>

IsDigit(c) == \E i \in 1..10 : DigitChars[i] = c

DigitValue(c) == (CHOOSE i \in 1..10 : DigitChars[i] = c) - 1

IsSpace(c) == c = " "

RECURSIVE Digits(_)
(* decimal digits of a natural number *)
Digits(n) == IF n < 10 THEN <<DigitChars[n + 1]>>
             ELSE Append(Digits(n \div 10), DigitChars[(n % 10) + 1])

(* String(v) *)
StringOf(v) ==
    CASE v.k = "string" -> v.s
      [] v.k = "number" ->
            (IF v.n < 0 THEN <<"-">> \o Digits(0 - v.n) ELSE Digits(v.n))
            \o (IF v.f # 0 THEN <<".", DigitChars[v.f + 1]>> ELSE <<>>)
      [] v.k = "true" -> <<"t", "r", "u", "e">>
      [] v.k = "false" -> <<"f", "a", "l", "s", "e">>
      [] v.k = "null" -> <<"n", "u", "l", "l">>
      [] v.k = "NaN" -> <<"N", "a", "N">>
      [] v.k = "undefined" -> <<"u", "n", "d", "e", "f", "i", "n", "e", "d">>

RECURSIVE TrimStart(_)
TrimStart(s) == IF Len(s) > 0 /\ IsSpace(Head(s)) THEN TrimStart(Tail(s)) ELSE s

RECURSIVE TrimEnd(_)
TrimEnd(s) == IF Len(s) > 0 /\ IsSpace(s[Len(s)])
              THEN TrimEnd(SubSeq(s, 1, Len(s) - 1)) ELSE s

(* s.trim() *)
Trim(s) == TrimEnd(TrimStart(s))

(* s.slice(0, n) of a string or an array *)
Slice(s, n) == SubSeq(s, 1, Min(n, Len(s)))

RECURSIVE DigitRun(_)
(* the longest prefix of s made of decimal digits *)
DigitRun(s) == IF Len(s) > 0 /\ IsDigit(Head(s))
               THEN <<Head(s)>> \o DigitRun(Tail(s)) ELSE <<>>

RECURSIVE DigitsValue(_)
DigitsValue(d) == IF Len(d) = 0 THEN 0
                  ELSE 10 * DigitsValue(SubSeq(d, 1, Len(d) - 1)) + DigitValue(d[Len(d)])

(* parseInt(v) with no radix: String(v), leading white space skipped, an  *)
(* optional sign, then the longest run of decimal digits; NaN when there  *)
(* is none.  (No input of the model starts with 0x.)                      *)
ParseInt(v) ==
    LET t == TrimStart(StringOf(v))
        neg == Len(t) > 0 /\ Head(t) = "-"
        body == IF Len(t) > 0 /\ Head(t) \in {"-", "+"} THEN Tail(t) ELSE t
        run == DigitRun(body)
    IN  IF Len(run) = 0 THEN NaN
        ELSE Num(IF neg THEN 0 - DigitsValue(run) ELSE DigitsValue(run))

(* ToNumber(v) for the values an entry's time can hold: a number, NaN, or *)
(* the null that JSON.stringify writes for NaN *)
ToNumber(v) == IF v.k = "null" THEN Num(0) ELSE v

(* a < b and a > b on numbers: false when either side is NaN *)
Lt(a, b) == a.k = "number" /\ b.k = "number" /\ a.n < b.n
Gt(a, b) == a.k = "number" /\ b.k = "number" /\ a.n > b.n
Le(a, b) == a.k = "number" /\ b.k = "number" /\ a.n <= b.n

(* a - b *)
Minus(a, b) == IF a.k = "number" /\ b.k = "number" THEN Num(a.n - b.n) ELSE NaN

----------------------------------------------------------------------------
(* Requests *)

(* The tokens crypto.randomBytes(32) yields in a run, and one it never yields *)
Tokens == {"t1"}
StrayToken == "t9"

NoToken == [k |-> "undefined", v |-> ""]
Tok(t) == [k |-> "string", v |-> t]

(* if (token) *)
TokenGiven(token) == token.k = "string" /\ token.v # ""

TokenInputs == {NoToken, Tok(""), Tok(StrayToken)} \cup {Tok(t) : t \in Tokens}

Body(name, cinema, email, time, token, mobile) ==
    [name |-> name, cinema |-> cinema, email |-> email, time |-> time,
     token |-> token, mobile |-> mobile]

GoodName == Str(<<" ", "A", "n">>)
GoodCinema == Str(<<"L", "x", " ">>)

(* Times the validation lets through: the two ends of the domain, the two  *)
(* sides of the 2 s tolerance of a 10 s session, and text that is no number *)
PassingTimes == {Num(3000), Num(12000), Num(12001), Num(600000), Str(<<"a", "b", "c">>)}

(* Times the validation stops: absent, zero, and just outside the domain *)
StoppedTimes == {Undefined, Num(0), Num(2000), Num(2999), Num(600001)}

(* Submissions with every text field present, with the session's token or  *)
(* none; then one with a token never issued, one with a fractional time,   *)
(* one from a mobile client that gives an e-mail, an empty token and a     *)
(* numeric string for the time; and submissions that lack a text field     *)
SubmitBodies ==
    { Body(GoodName, GoodCinema, Undefined, t, tk, Undefined) :
        t \in PassingTimes \cup StoppedTimes, tk \in {NoToken} \cup {Tok(x) : x \in Tokens} }
    \cup
    { Body(GoodName, GoodCinema, Undefined, Num(12000), Tok(StrayToken), Undefined),
      Body(GoodName, GoodCinema, Undefined, Frac(3000, 5), NoToken, Undefined),
      Body(GoodName, GoodCinema, Str(<<"a", "@", "b">>), Str(<<"3", "0", "0", "0">>),
           Tok(""), True) }
    \cup
    { Body(n, c, Undefined, Num(12000), Tok("t1"), Undefined) :
        n \in {Undefined, Str(<<>>), GoodName}, c \in {Undefined, GoodCinema} }

InteractBodies ==
    { Body(Undefined, Undefined, Undefined, Undefined, tk, Undefined) :
        tk \in TokenInputs }

(* The instants at which the clock is read: process start, 10 s later, and *)
(* 30 minutes after that                                                   *)
Instants == {0, 10000, MaxAge + 10000}

(* What the file system does to a handler that loads and saves the file:   *)
(* nothing wrong; readFileSync throws (a writeFileSync that throws before  *)
(* it truncates the file leaves the same state); writeFileSync throws      *)
(* after it truncated the file, leaving text that is no JSON               *)
IoOutcomes == {"ok", "readError", "writeError"}

----------------------------------------------------------------------------
(* Score entries and the persisted document *)

Entry(id, name, cinema, email, time, date, verified, mobile) ==
    [id |-> id, name |-> name, cinema |-> cinema, email |-> email, time |-> time,
     date |-> date, verified |-> verified, mobile |-> mobile]

NoEntry == Entry(0, <<>>, <<>>, Null, Null, 0, FALSE, FALSE)

(* The document is a JSON array of entries, or text JSON.parse rejects *)
Document(entries) == [json |-> "array", items |-> entries]
Unparsable == [json |-> "invalid", items |-> <<>>]

(* Text that parses to a falsy value (null, false, 0, ""), and text that *)
(* parses to a truthy value that is no array (an object)                 *)
FalsyDocument == [json |-> "falsy", items |-> <<>>]
ObjectDocument == [json |-> "object", items |-> <<>>]

(* the load throws: JSON.parse rejects the text, or the value has no sort *)
(* and no push                                                            *)
Throws(doc) == doc.json \in {"invalid", "object"}

(* JSON.parse(fs.readFileSync(SCORES_FILE, 'utf8')) || [] *)
Parsed(doc) == IF doc.json = "array" THEN doc.items ELSE <<>>

(* JSON.stringify of a number: NaN is written as null *)
JsonNumber(v) == IF v.k = "NaN" THEN Null ELSE v

(* JSON.parse(JSON.stringify(entry)) *)
Serialized(e) == [e EXCEPT !.time = JsonNumber(@)]

(* Mutant: saving stamps every entry with the date of the save *)
SerializedAllRestamped(s) == [i \in 1..Len(s) |-> [Serialized(s[i]) EXCEPT !.date = now]]

SerializedAll(s) == [i \in 1..Len(s) |-> Serialized(s[i])]

(* (a, b) => a.time - b.time, a NaN result counting as +0 (Array.prototype.sort) *)
CompareFn(a, b) ==
    LET d == Minus(ToNumber(a.time), ToNumber(b.time))
    IN  IF d.k = "NaN" THEN 0 ELSE d.n

(* scores.sort(compareFn): a stable sort; an element moves left only past *)
(* elements it compares less than                                         *)
SortByTime(s) == SortSeq(s, LAMBDA a, b : CompareFn(a, b) < 0)

(* scores.slice(0, 500) *)
KeepTop(s) == Slice(s, MaxScores)

(* scores.findIndex(s => s.id === id) + 1 *)
RankOf(s, id) ==
    IF \E i \in 1..Len(s) : s[i].id = id
    THEN CHOOSE i \in 1..Len(s) : s[i].id = id /\ \A j \in 1..(i - 1) : s[j].id # id
    ELSE 0

(* Entries stored by earlier runs: SeedLen anonymous submissions *)
SeedLen == MaxScores - 1
SeedTime(i) == IF i <= 200 THEN 3000 ELSE IF i <= 400 THEN 12001 ELSE 600000
SeedScores ==
    [i \in 1..SeedLen |->
        Entry(SeedBase + i, <<"A">>, <<"C">>, Null, Num(SeedTime(i)), 0, FALSE, FALSE)]

----------------------------------------------------------------------------
(* Sessions and responses *)

NoTime == 0 - 1

(* crypto.createHmac('sha256', SECRET_KEY).update(token + startTime).digest('hex') *)
Hmac(token, startTime) == [key |-> "SECRET_KEY", data |-> <<token, startTime>>]

NoSignature == [key |-> "", data |-> <<>>]

(* gameSessions.set(token, { startTime, signature, interactions: 0, submitted: false }) *)
NewSession(token, startTime) ==
    [startTime |-> startTime, signature |-> Hmac(token, startTime), interactions |-> 0,
     submitted |-> FALSE, lastInteraction |-> NoTime]

(* Mutant: the entry stays in the map *)
DeleteNothing(sessions, token) == sessions

(* gameSessions.delete(token) *)
Delete(sessions, token) == [t \in DOMAIN sessions \ {token} |-> sessions[t]]

(* What res.status(...).json(...) sends: signature is the first 16 hex *)
(* characters of the session's signature                               *)
Response(status, success, error, rank, score, scores, token, signature) ==
    [status |-> status, success |-> success, error |-> error, rank |-> rank,
     score |-> score, scores |-> scores, token |-> token,
     signature |-> [first |-> IF signature.key = "" THEN 0 ELSE SignaturePrefix,
                    of |-> signature]]

Failure(status, error) == Response(status, FALSE, error, 0, NoEntry, <<>>, "", NoSignature)

NoUse == [carried |-> 0, found |-> 0, verified |-> 0]

----------------------------------------------------------------------------
(* POST /scores, step by step *)

(* !name || !cinema || !time *)
MissingFields(body) == ~Truthy(body.name) \/ ~Truthy(body.cinema) \/ ~Truthy(body.time)

(* String(v).trim().slice(0, n) *)
Sanitize(v, n) == Slice(Trim(StringOf(v)), n)

(* sanitizedTime < 3000 || sanitizedTime > 600000 *)
InvalidTime(t) == Lt(t, Num(MinTime)) \/ Gt(t, Num(MaxTime))

(* const sanitizedTime = parseInt(time), for the times the requests carry *)
(* (computed once)                                                       *)
SanitizedTimes == [v \in {b.time : b \in SubmitBodies} |-> ParseInt(v)]

SanitizedTime(body) == SanitizedTimes[body.time]

(* The error of the 400 response of the validation, "" when the body passes *)
Refusal(body) ==
    IF MissingFields(body) THEN "Missing required fields: name, cinema, time"
    ELSE IF InvalidTime(SanitizedTime(body)) THEN "Invalid time value"
    ELSE ""

(* Mutant: the interaction count is not checked *)
ValidSessionNoFloor(sessions, token, t, clock) ==
    /\ TokenGiven(token)
    /\ token.v \in DOMAIN sessions
    /\ ~sessions[token.v].submitted
    /\ Le(t, Num((clock - sessions[token.v].startTime) + Tolerance))

(* the session validation: found, not submitted, plausible time, enough interactions *)
ValidSession(sessions, token, t, clock) ==
    /\ TokenGiven(token)
    /\ token.v \in DOMAIN sessions
    /\ ~sessions[token.v].submitted
    /\ Le(t, Num((clock - sessions[token.v].startTime) + Tolerance))
    /\ sessions[token.v].interactions >= MinInteractions

(* Mutant: the handler neither marks nor deletes the session *)
ConsumeSessionNever(sessions, token, valid, saved) == sessions

(* what the handler does to the registry: session.submitted = true when the *)
(* session is valid; gameSessions.delete(token) once the score is saved     *)
ConsumeSession(sessions, token, valid, saved) ==
    LET marked == IF valid THEN [sessions EXCEPT ![token.v].submitted = TRUE] ELSE sessions
    IN  IF saved /\ TokenGiven(token) THEN Delete(marked, token.v) ELSE marked

NewScore(id, body, t, clock, valid) ==
    Entry(id, Sanitize(body.name, NameMax), Sanitize(body.cinema, CinemaMax),
          IF Truthy(body.email) THEN Str(Sanitize(body.email, EmailMax)) ELSE Null,
          t, clock, valid, body.mobile.k = "true")

(* scores.push(newScore); scores.sort(...); scores = scores.slice(0, 500) *)
Inserted(scores, entry) == KeepTop(SortByTime(Append(scores, entry)))

(* Mutant: a submission whose token does not validate is refused *)
SubmitStatusStrict(body, io) ==
    IF Refusal(body) # "" THEN 400
    ELSE IF TokenGiven(body.token)
            /\ ~ValidSession(gameSessions, body.token, SanitizedTime(body), now) THEN 400
    ELSE IF io # "ok" \/ Throws(file) THEN 500
    ELSE 200

(* The handler in the current state.  Status 400: refused by the validation; *)
(* 500: readFileSync, JSON.parse or writeFileSync threw; 200: saved.         *)
SubmitStatus(body, io) ==
    IF Refusal(body) # "" THEN 400
    ELSE IF io # "ok" \/ Throws(file) THEN 500
    ELSE 200

SubmitValid(body) == ValidSession(gameSessions, body.token, SanitizedTime(body), now)

SubmitEntry(body) == NewScore(nextId, body, SanitizedTime(body), now, SubmitValid(body))

(* Mutant: the insert works on a collection loaded before the other *)
(* request saved (here: when the process started)                   *)
SubmitScoresStale(body) == Inserted(<<>>, SubmitEntry(body))

SubmitScores(body) == Inserted(Parsed(file), SubmitEntry(body))

SubmitResponse(body, io) ==
    LET status == SubmitStatus(body, io)
    IN  CASE status = 400 -> Failure(400, Refusal(body))
          [] status = 500 -> Failure(500, "Failed to save score")
          [] status = 200 ->
                Response(200, TRUE, "", RankOf(SubmitScores(body), nextId),
                         Serialized(SubmitEntry(body)), <<>>, "", NoSignature)

(* Mutant: the session is consumed before the body is validated *)
SubmitSessionsEager(body, io) ==
    ConsumeSession(gameSessions, body.token, SubmitValid(body), SubmitStatus(body, io) = 200)

SubmitSessions(body, io) ==
    LET status == SubmitStatus(body, io)
    IN  IF status = 400 THEN gameSessions
        ELSE ConsumeSession(gameSessions, body.token, SubmitValid(body), status = 200)

SubmitFile(body, io) ==
    LET status == SubmitStatus(body, io)
    IN  CASE status = 200 -> Document(SerializedAll(SubmitScores(body)))
          [] status = 500 /\ io = "writeError" /\ ~Throws(file) -> Unparsable
          [] OTHER -> file

(* the history of a started session's token after a saved submission *)
Used(u, started, sessions, token, valid) ==
    IF TokenGiven(token) /\ token.v \in started
    THEN [u EXCEPT ![token.v] =
            [carried |-> @.carried + 1,
             found |-> @.found + (IF token.v \in DOMAIN sessions THEN 1 ELSE 0),
             verified |-> @.verified + (IF valid THEN 1 ELSE 0)]]
    ELSE u

(* Mutant: a submitted session still counts interactions *)
InteractLiveSubmitted(body) ==
    /\ body.token.k = "string"
    /\ body.token.v \in DOMAIN gameSessions

(* POST /session/interact in the current state *)
InteractLive(body) ==
    /\ body.token.k = "string"
    /\ body.token.v \in DOMAIN gameSessions
    /\ ~gameSessions[body.token.v].submitted

InteractResponse(body) ==
    Response(200, InteractLive(body), "", 0, NoEntry, <<>>, "", NoSignature)

InteractSessions(body) ==
    IF InteractLive(body)
    THEN [gameSessions EXCEPT ![body.token.v].interactions = @ + 1,
                              ![body.token.v].lastInteraction = now]
    ELSE gameSessions

(* POST /session/start in the current state *)
StartResponse(token) == Response(200, TRUE, "", 0, NoEntry, <<>>, token, Hmac(token, now))

(* GET /scores on a document *)
Listing(doc, io) ==
    IF io = "readError" \/ Throws(doc)
    THEN Failure(500, "Failed to load scores")
    ELSE Response(200, TRUE, "", 0, NoEntry,
                  Slice(SortByTime(Parsed(doc)), ListLimit), "", NoSignature)

(* GET /scores in the current state *)
ListResponse(io) == Listing(file, io)

(* Mutant: the listing saves the order it sorted *)
ListFileSorted(io) ==
    IF io = "readError" \/ Throws(file) THEN file
    ELSE Document(SortByTime(Parsed(file)))

(* the handler writes nothing: the document and the registry after it *)
ListFile(io) == file

ListSessions(io) == gameSessions

(* Mutant: the sweep spares the sessions marked submitted *)
SweptUnsubmittedOnly(sessions, clock) ==
    [t \in {u \in DOMAIN sessions :
               ~(clock - sessions[u].startTime > MaxAge /\ ~sessions[u].submitted)}
        |-> sessions[t]]

(* Mutant: >= for > *)
SweptAtAge(sessions, clock) ==
    [t \in {u \in DOMAIN sessions : ~(clock - sessions[u].startTime >= MaxAge)}
        |-> sessions[t]]

(* the setInterval callback in the current state *)
Swept(sessions, clock) ==
    [t \in {u \in DOMAIN sessions : ~(clock - sessions[u].startTime > MaxAge)}
        |-> sessions[t]]

----------------------------------------------------------------------------
(* A fresh process with an empty scores file *)
Init ==
    /\ now = 0
    /\ lastSweep = 0
    /\ gameSessions = <<>>
    /\ issued = {}
    /\ file = Document(<<>>)
    /\ nextId = 1
    /\ used = [t \in Tokens |-> NoUse]

(* Time passes: the clock is read at these instants *)
Tick(t) ==
    /\ t > now
    /\ now' = t
    /\ UNCHANGED <<lastSweep, gameSessions, issued, file, nextId, used>>

(* setInterval callback, every 10 minutes at the earliest *)
Sweep ==
    /\ now - lastSweep >= SweepInterval
    /\ lastSweep' = now
    /\ gameSessions' = Swept(gameSessions, now)
    /\ UNCHANGED <<now, issued, file, nextId, used>>

(* POST /session/start: the token is fresh (32 random bytes) *)
StartSession(token) ==
    /\ token \notin issued
    /\ issued' = issued \cup {token}
    /\ gameSessions' = [t \in DOMAIN gameSessions \cup {token} |->
                          IF t = token THEN NewSession(token, now) ELSE gameSessions[t]]
    /\ UNCHANGED <<now, lastSweep, file, nextId, used>>

(* POST /session/interact *)
Interact(body) ==
    /\ InteractLive(body) => gameSessions[body.token.v].interactions < MaxInteract
    /\ gameSessions' = InteractSessions(body)
    /\ UNCHANGED <<now, lastSweep, issued, file, nextId, used>>

(* GET /scores *)
ListScores(io) ==
    /\ ListResponse(io).status \in {200, 500}
    /\ file' = ListFile(io)
    /\ gameSessions' = ListSessions(io)
    /\ UNCHANGED <<now, lastSweep, issued, nextId, used>>

(* POST /scores *)
SubmitScore(body, io) ==
    LET status == SubmitStatus(body, io)
    IN  /\ status = 400 => io = "ok"   \* no file access: io plays no part
        /\ status = 200 => nextId <= MaxSubmits
        /\ gameSessions' = SubmitSessions(body, io)
        /\ file' = SubmitFile(body, io)
        /\ nextId' = IF status = 200 THEN nextId + 1 ELSE nextId
        /\ used' = IF status = 200
                   THEN Used(used, issued, gameSessions, body.token, SubmitValid(body))
                   ELSE used
        /\ UNCHANGED <<now, lastSweep, issued>>

Next ==
    \/ \E t \in Instants : Tick(t)
    \/ Sweep
    \/ \E token \in Tokens : StartSession(token)
    \/ \E body \in InteractBodies : Interact(body)
    \/ \E io \in {"ok", "readError"} : ListScores(io)
    \/ \E body \in SubmitBodies, io \in IoOutcomes : SubmitScore(body, io)

Spec == Init /\ [][Next]_vars

(* A process started on the scores file an earlier run left one entry short *)
(* of full, 10 s after its start, with a session that has been played       *)
InitFull ==
    /\ now = 10000
    /\ lastSweep = 0
    /\ gameSessions = [t \in {"t1"} |->
                          [NewSession("t1", 0) EXCEPT !.interactions = MinInteractions,
                                                      !.lastInteraction = 10000]]
    /\ issued = {"t1"}
    /\ file = Document(SeedScores)
    /\ nextId = 1
    /\ used = [t \in Tokens |-> NoUse]

NextFull ==
    \/ \E body \in InteractBodies : Interact(body)
    \/ \E io \in {"ok", "readError"} : ListScores(io)
    \/ \E body \in SubmitBodies, io \in IoOutcomes : SubmitScore(body, io)

SpecFull == InitFull /\ [][NextFull]_vars

(* A fresh process on a scores file that exists already: an empty array, *)
(* a falsy JSON value, an object, or text that is no JSON                *)
InitDocs ==
    /\ now = 0
    /\ lastSweep = 0
    /\ gameSessions = <<>>
    /\ issued = {}
    /\ file \in {Document(<<>>), FalsyDocument, ObjectDocument, Unparsable}
    /\ nextId = 1
    /\ used = [t \in Tokens |-> NoUse]

SpecDocs == InitDocs /\ [][Next]_vars

(* A process with two sessions started at its first instant: the second *)
(* client's token is OtherToken                                         *)
OtherToken == "t2"

PairInteracts ==
    InteractBodies
    \cup {Body(Undefined, Undefined, Undefined, Undefined, Tok(OtherToken), Undefined)}

(* the first client's submissions: plausible, implausible and refused *)
PairSubmits ==
    { Body(GoodName, GoodCinema, Undefined, t, Tok("t1"), Undefined) :
        t \in {Num(2000), Num(12000), Num(12001)} }

InitPair ==
    /\ now = 0
    /\ lastSweep = 0
    /\ gameSessions = [t \in {"t1", OtherToken} |-> NewSession(t, 0)]
    /\ issued = {"t1", OtherToken}
    /\ file = Document(<<>>)
    /\ nextId = 1
    /\ used = [t \in Tokens |-> NoUse]

NextPair ==
    \/ \E t \in Instants : Tick(t)
    \/ Sweep
    \/ \E body \in PairInteracts : Interact(body)
    \/ \E io \in {"ok", "readError"} : ListScores(io)
    \/ \E body \in PairSubmits, io \in IoOutcomes : SubmitScore(body, io)

SpecPair == InitPair /\ [][NextPair]_vars

(* The process with time advancing and the timer firing.  The clock is *)
(* read up to Horizon; sessions start before it, so that every session *)
(* started can be seen to grow older than MaxAge.                      *)
Horizon == 2 * (MaxAge + 10000)

LiveInstants == Instants \cup {Horizon}

TickLive == \E t \in LiveInstants : Tick(t)

StartLive == \E token \in Tokens : now < Horizon /\ StartSession(token)

NextLive ==
    \/ TickLive
    \/ Sweep
    \/ StartLive
    \/ \E body \in InteractBodies : Interact(body)
    \/ \E io \in {"ok", "readError"} : ListScores(io)
    \/ \E body \in PairSubmits, io \in IoOutcomes : SubmitScore(body, io)

(* Date.now() advances, and setInterval keeps calling the sweep *)
SpecLive == Init /\ [][NextLive]_vars /\ WF_vars(TickLive) /\ WF_vars(Sweep)

----------------------------------------------------------------------------
(* Claims *)

Items == file.items
Readable == file.json = "array"

(* an entry's time as the comparator reads it *)
TimeOf(e) == ToNumber(e.time)

Holds(id) == \E i \in 1..Len(Items) : Items[i].id = id

(* a submission with all three required fields and a whole number of ms *)
(* inside the domain                                                    *)
WellFormed(body) ==
    /\ body.name.k = "string" /\ Len(body.name.s) > 0
    /\ body.cinema.k = "string" /\ Len(body.cinema.s) > 0
    /\ body.time.k = "number" /\ body.time.f = 0
    /\ body.time.n >= 3000 /\ body.time.n <= 600000

(* C1: the persisted collection is sorted ascending by time and holds at *)
(* most 500 entries, after any sequence of submissions.                  *)
C1_SortedAndBounded ==
    Readable =>
        /\ Len(Items) <= 500
        /\ \A i \in 1..(Len(Items) - 1) : Le(TimeOf(Items[i]), TimeOf(Items[i + 1]))

(* C2: of the saved submissions that carried one token at most one is    *)
(* verified; once one is saved, or once the session is marked submitted, *)
(* a request with the token finds no usable session and is unverified.   *)
C2_OneVerifiedPerToken ==
    \A t \in Tokens :
        /\ used[t].verified <= 1
        /\ used[t].carried >= 1 => t \notin DOMAIN gameSessions
        /\ \A body \in SubmitBodies :
              (body.token = Tok(t)
               /\ (t \notin DOMAIN gameSessions \/ gameSessions[t].submitted))
              => ~SubmitEntry(body).verified

C2_Witness == used["t1"].carried = 2 /\ used["t1"].verified = 1

(* C3: a submission that passes the validation is stored verified exactly *)
(* when it carries a token, the registry has a session for it that is not *)
(* submitted, the time is at most the session's age + 2000 ms, and the    *)
(* session has at least 3 interactions.                                   *)
C3_VerifiedIff ==
    \A body \in SubmitBodies :
        SubmitStatus(body, "ok") = 200 =>
            LET tk == body.token
                plausible ==
                    /\ tk.k = "string" /\ tk.v # ""
                    /\ tk.v \in DOMAIN gameSessions
                    /\ gameSessions[tk.v].submitted = FALSE
                    /\ SanitizedTime(body).k = "number"
                    /\ SanitizedTime(body).n <= (now - gameSessions[tk.v].startTime) + 2000
                    /\ gameSessions[tk.v].interactions >= 3
                stored == SubmitFile(body, "ok").items
            IN  /\ SubmitResponse(body, "ok").score.verified = plausible
                /\ \A i \in 1..Len(stored) :
                      stored[i].id = nextId => stored[i].verified = plausible

C3_Witness ==
    /\ used["t1"].carried = 1 /\ used["t1"].verified = 1
    /\ \E i \in 1..Len(Items) : Items[i].verified
    /\ \E i \in 1..Len(Items) : ~Items[i].verified

(* C4: a submission whose token names a session that is unknown, older   *)
(* than 30 minutes (swept or not) or already used is stored unverified.  *)
C4_StaleTokenUnverified ==
    \A body \in SubmitBodies :
        (/\ TokenGiven(body.token)
         /\ SubmitStatus(body, "ok") = 200
         /\ \/ body.token.v \notin DOMAIN gameSessions
            \/ now - gameSessions[body.token.v].startTime > 1800000
            \/ gameSessions[body.token.v].submitted)
        => ~SubmitResponse(body, "ok").score.verified

(* C5: a time that is no whole number in [3000, 600000] is refused, so   *)
(* every persisted entry has a whole-number time in [3000, 600000].      *)
C5_StoredTimesInDomain ==
    /\ \A body \in SubmitBodies :
          (/\ Truthy(body.name) /\ Truthy(body.cinema) /\ Truthy(body.time)
           /\ \/ body.time.k = "string" /\ SanitizedTime(body).k = "NaN"
              \/ body.time.k = "number"
                 /\ (body.time.f # 0 \/ body.time.n < 3000 \/ body.time.n > 600000))
          => SubmitResponse(body, "ok").error = "Invalid time value"
    /\ Readable =>
          \A i \in 1..Len(Items) :
              /\ Items[i].time.k = "number" /\ Items[i].time.f = 0
              /\ Items[i].time.n >= 3000 /\ Items[i].time.n <= 600000

(* C6: a submission refused by the validation (a missing name, cinema or *)
(* time, a time below 3000 or above 600000) changes neither the          *)
(* persisted collection nor the registry.                                *)
C6_RefusalChangesNothing ==
    \A body \in SubmitBodies :
        /\ (\/ ~Truthy(body.name) \/ ~Truthy(body.cinema) \/ ~Truthy(body.time)
            \/ (body.time.k = "number" /\ (body.time.n < 3000 \/ body.time.n > 600000)))
           => SubmitStatus(body, "ok") = 400
        /\ \A io \in IoOutcomes :
              SubmitResponse(body, io).status = 400
              => /\ SubmitFile(body, io) = file
                 /\ SubmitSessions(body, io) = gameSessions

C6_Witness ==
    /\ "t1" \in DOMAIN gameSessions
    /\ gameSessions["t1"].interactions >= 3
    /\ now - gameSessions["t1"].startTime = 10000
    /\ Len(Items) = 1
    /\ SubmitResponse(Body(GoodName, GoodCinema, Undefined, Num(2000), Tok("t1"), Undefined),
                      "ok").error = "Invalid time value"
    /\ SubmitResponse(Body(GoodName, GoodCinema, Undefined, Num(12000), Tok("t1"), Undefined),
                      "ok").score.verified

(* C7: with 500 entries stored, a submission whose time is at least every *)
(* stored time leaves the collection as it is, its entry is not in it,    *)
(* and the rank returned is 0.                                            *)
C7_SlowestNotRetained ==
    \A body \in SubmitBodies :
        (/\ Readable /\ Len(Items) = 500
         /\ SubmitStatus(body, "ok") = 200
         /\ SanitizedTime(body).k = "number"
         /\ \A i \in 1..Len(Items) : TimeOf(Items[i]).n <= SanitizedTime(body).n)
        => /\ SubmitFile(body, "ok") = file
           /\ \A i \in 1..Len(Items) : SubmitFile(body, "ok").items[i].id # nextId
           /\ SubmitResponse(body, "ok").rank = 0
           /\ SubmitResponse(body, "ok").success

C7_Witness == Readable /\ Len(Items) = 500 /\ nextId = 3 /\ ~Holds(2) /\ Holds(1)

(* C8: a sweep removes every session older than 30 minutes, whatever its *)
(* interactions and submitted, and leaves every other session as it was. *)
C8_SweepRemovesExpiredOnly ==
    [][lastSweep' # lastSweep =>
          /\ DOMAIN gameSessions' \subseteq DOMAIN gameSessions
          /\ \A t \in DOMAIN gameSessions :
                IF now - gameSessions[t].startTime > 1800000
                THEN t \notin DOMAIN gameSessions'
                ELSE t \in DOMAIN gameSessions' /\ gameSessions'[t] = gameSessions[t]]_vars

C8_Witness ==
    /\ lastSweep = now /\ now > 0
    /\ "t1" \in DOMAIN gameSessions
    /\ now - gameSessions["t1"].startTime = 1800000

(* C9: a well-formed submission is saved whatever its token: the response *)
(* is a success and the collection gains the entry, up to the truncation. *)
C9_NeverRefusedOnAntiCheat ==
    \A body \in SubmitBodies :
        (WellFormed(body) /\ Readable)
        => /\ SubmitResponse(body, "ok").status = 200
           /\ SubmitResponse(body, "ok").success
           /\ Len(SubmitFile(body, "ok").items) = Min(Len(Items) + 1, 500)
           /\ \/ Len(Items) = 500
              \/ \E i \in 1..(Len(Items) + 1) :
                    SubmitFile(body, "ok").items[i] = SubmitResponse(body, "ok").score

C9_Witness ==
    /\ used["t1"].carried = 1 /\ used["t1"].found = 1 /\ used["t1"].verified = 0
    /\ Len(Items) = 1 /\ ~Items[1].verified

(* C10: after a saved submission that carried a token the registry holds *)
(* no session for the token, verified or not; no session is found by     *)
(* more than one saved submission.                                       *)
C10_ConsumedOnce ==
    /\ \A t \in Tokens : used[t].found <= 1
    /\ \A body \in SubmitBodies :
          (TokenGiven(body.token) /\ SubmitResponse(body, "ok").success)
          => body.token.v \notin DOMAIN SubmitSessions(body, "ok")

C10_Witness ==
    /\ used["t1"].carried = 2 /\ used["t1"].found = 1 /\ used["t1"].verified = 0
    /\ "t1" \notin DOMAIN gameSessions

(* C11: an interaction with the token of a session that is not submitted  *)
(* adds exactly 1 to its interactions and returns success; with no token, *)
(* an unknown token or a submitted session it returns success: false and  *)
(* changes no session.  No other session and no entry is changed, and a   *)
(* session's interactions never decrease.                                 *)
C11_InteractCountsOne ==
    /\ [](\A body \in PairInteracts :
            LET t == body.token.v
                after == InteractSessions(body)
            IN  IF body.token.k = "string" /\ t \in DOMAIN gameSessions
                   /\ ~gameSessions[t].submitted
                THEN /\ InteractResponse(body).success
                     /\ DOMAIN after = DOMAIN gameSessions
                     /\ after[t].interactions = gameSessions[t].interactions + 1
                     /\ after[t].startTime = gameSessions[t].startTime
                     /\ after[t].submitted = gameSessions[t].submitted
                     /\ \A u \in DOMAIN gameSessions \ {t} : after[u] = gameSessions[u]
                ELSE /\ ~InteractResponse(body).success
                     /\ InteractResponse(body).status = 200
                     /\ after = gameSessions)
    /\ [][\A t \in DOMAIN gameSessions \cap DOMAIN gameSessions' :
            /\ gameSessions'[t].interactions >= gameSessions[t].interactions
            /\ gameSessions'[t].interactions # gameSessions[t].interactions
               => /\ gameSessions'[t].interactions = gameSessions[t].interactions + 1
                  /\ file' = file
                  /\ DOMAIN gameSessions' = DOMAIN gameSessions
                  /\ \A u \in DOMAIN gameSessions \ {t} :
                        gameSessions'[u] = gameSessions[u]]_vars

C11_Witness ==
    /\ "t1" \in DOMAIN gameSessions /\ gameSessions["t1"].submitted
    /\ gameSessions["t1"].interactions = 3
    /\ OtherToken \in DOMAIN gameSessions
    /\ gameSessions[OtherToken].interactions = 1
    /\ gameSessions[OtherToken].lastInteraction = now
    /\ Len(Items) = 0

C14_ListFailsOnMalformed ==
    /\ ~Readable => /\ ~ListResponse("ok").success
                    /\ ListResponse("ok").status = 500
    /\ (ListResponse("ok").success /\ ListResponse("ok").scores = <<>>)
       => (Readable /\ Items = <<>>)

(* C13: on a readable collection of n entries a listing succeeds with  *)
(* min(n, 50) entries, ascending by time, which are the first          *)
(* min(n, 50) entries of the persisted collection.                     *)
C13_ListsFastestFifty ==
    Readable =>
        LET listed == ListResponse("ok").scores
        IN  /\ ListResponse("ok").success
            /\ Len(listed) = Min(Len(Items), 50)
            /\ \A i \in 1..(Len(listed) - 1) :
                  Le(TimeOf(listed[i]), TimeOf(listed[i + 1]))
            /\ \A i \in 1..Len(listed) : listed[i] = Items[i]

(* C15: after a saved submission the collection is the previous entries *)
(* and the new one, less at most one entry when they are more than 500; *)
(* the entry dropped has a time greater than or equal to the time of    *)
(* every entry retained.                                                *)
C15_KeepsLowestTimes ==
    \A body \in SubmitBodies :
        (Readable /\ SubmitStatus(body, "ok") = 200) =>
            LET pool == Append(Items, SubmitEntry(body))
                after == SubmitFile(body, "ok").items
                keptIds == {after[j].id : j \in 1..Len(after)}
                dropped == {i \in 1..Len(pool) : pool[i].id \notin keptIds}
            IN  /\ Len(after) = Min(Len(pool), 500)
                /\ Cardinality(keptIds) = Len(after)
                /\ \A j \in 1..Len(after) :
                      \E i \in 1..Len(pool) : after[j] = Serialized(pool[i])
                /\ Cardinality(dropped) <= 1
                /\ \A i \in dropped :
                      \A k \in 1..Len(pool) :
                          k \notin dropped => Le(TimeOf(pool[k]), TimeOf(pool[i]))

C17_NoLostUpdate ==
    /\ [](Readable =>
            /\ Len(Items) = nextId - 1
            /\ \A id \in 1..(nextId - 1) : Holds(id))
    /\ [](\A body \in SubmitBodies :
            (Readable /\ SubmitStatus(body, "ok") = 200) =>
                LET rank == SubmitResponse(body, "ok").rank
                IN  /\ rank \in 1..(Len(Items) + 1)
                    /\ SubmitFile(body, "ok").items[rank].id = nextId)
    /\ [][nextId' # nextId =>
            /\ nextId' = nextId + 1
            /\ \E body \in SubmitBodies :
                  /\ Refusal(body) = ""
                  /\ file' = Document(SerializedAll(KeepTop(SortByTime(
                                Append(Parsed(file), SubmitEntry(body))))))]_vars

C17_Witness ==
    /\ Readable /\ nextId = 3 /\ Len(Items) = 2
    /\ Items[1].id = 2 /\ Items[2].id = 1
    /\ TimeOf(Items[1]).n < TimeOf(Items[2]).n

(* C18: when a saved submission's entry is retained, the rank returned   *)
(* is its place in the persisted collection, it lies in 1..500, and it   *)
(* is 1 + the number of entries stored before whose time is less than or *)
(* equal to the new time.                                                *)
C18_RankIsPosition ==
    \A body \in SubmitBodies :
        LET after == SubmitFile(body, "ok").items
        IN  (/\ Readable /\ SubmitStatus(body, "ok") = 200
             /\ \E j \in 1..Len(after) : after[j].id = nextId)
            => LET rank == SubmitResponse(body, "ok").rank
               IN  /\ rank \in 1..500
                   /\ rank <= Len(after)
                   /\ after[rank].id = nextId
                   /\ rank = 1 + Cardinality({i \in 1..Len(Items) :
                                   Le(TimeOf(Items[i]), SanitizedTime(body))})

(* C19: a submission that fails with a storage error leaves the registry *)
(* as it was before the request, so a session that would have verified   *)
(* it still does; and it leaves the persisted collection as it was (said *)
(* here of the failures that come before the write).                     *)
C19_StorageErrorChangesNothing ==
    \A body \in SubmitBodies, io \in IoOutcomes :
        SubmitResponse(body, io).status = 500 =>
            /\ SubmitSessions(body, io) = gameSessions
            /\ SubmitValid(body)
               => ValidSession(SubmitSessions(body, io), body.token,
                               SanitizedTime(body), now)
            /\ io # "writeError" => SubmitFile(body, io) = file

(* C20: every session started is eventually absent from the registry,  *)
(* given that time advances and the sweep keeps firing; a session       *)
(* leaves the registry only by a saved submission with its token or by  *)
(* a sweep that finds it older than 30 minutes.                         *)
C20_SessionsEventuallyGone ==
    /\ \A t \in Tokens : (t \in DOMAIN gameSessions) ~> (t \notin DOMAIN gameSessions)
    /\ [][\A t \in DOMAIN gameSessions \ DOMAIN gameSessions' :
            \/ /\ nextId' = nextId + 1
               /\ used'[t].carried = used[t].carried + 1
            \/ /\ lastSweep' # lastSweep
               /\ now - gameSessions[t].startTime > 1800000]_vars

C20_Witness ==
    /\ "t1" \in issued /\ "t1" \notin DOMAIN gameSessions
    /\ used["t1"].carried = 0
    /\ lastSweep = now /\ now > 1800000

====
